---- MODULE Spec2Model ----
(***************************************************************************)
(* Effective-medium solvers (03_VERIFIER/refractive_index_checker.py,      *)
(* figures/generate_figures.py) and the time-of-flight latency model       *)
(* (01_AUDIT/latency_calculator.py, 01_AUDIT/analyze_nvidia_cluster.py).   *)
(*                                                                         *)
(* Python floats are modelled as binary floating-point numbers m * 2^e     *)
(* with a MantBits-bit mantissa and round-to-nearest-even after every      *)
(* operation, exactly as IEEE-754 arithmetic does with 53 bits.  The       *)
(* exponent is not bounded (no overflow to inf, no subnormals): the inputs *)
(* drawn below stay far inside the range of a double.                      *)
(***************************************************************************)
EXTENDS Integers, Sequences, FiniteSets, TLC

\* ------------------------------------------------------------------------
\* Bounds of the model
\* ------------------------------------------------------------------------
\* width of the mantissa of the modelled float
MantBits == 12
\* volume fractions are drawn from k / FracDen, k in 0..FracDen
FracDen == 20
\* bruggeman is called with max_iter in 0..MaxIterSmall and with its default
MaxIterSmall == 2
\* solid fractions are drawn from the whole percents k * PctStep
PctStep == 5
\* calls that run the solvers' default 100 iterations take their volume
\* fraction from k / CoarseDen, k in 0..CoarseDen
CoarseDen == 5
\* link distances are drawn from DistStep * k metres, k in 0..MaxDistSteps
MaxDistSteps == 6

\* ------------------------------------------------------------------------
\* Floating-point arithmetic (Python float)
\* ------------------------------------------------------------------------
AbsInt(x) == IF x < 0 THEN -x ELSE x

SignInt(x) == IF x < 0 THEN -1 ELSE 1

Zero == [m |-> 0, e |-> 0]

\* number of bits of the non-negative integer n
RECURSIVE BitLen(_)
BitLen(n) == IF n = 0 THEN 0 ELSE 1 + BitLen(n \div 2)

\* Each operation below binds its operands once (x \in {...}) and then works
\* on the bound values, as a Python expression evaluates its operands once.

\* round the exact value m * 2^e to MantBits bits, ties to even
Round(m, e) ==
    IF m = 0 THEN Zero
    ELSE CHOOSE r \in
           {IF k <= 0
            THEN [m |-> m * 2^(-k), e |-> e + k]
            ELSE LET a    == AbsInt(m)
                     q    == a \div 2^k
                     rem  == a % 2^k
                     half == 2^(k - 1)
                     up   == rem > half \/ (rem = half /\ q % 2 = 1)
                     q2   == IF up THEN q + 1 ELSE q
                 IN IF q2 = 2^MantBits
                    THEN [m |-> SignInt(m) * 2^(MantBits - 1), e |-> e + k + 1]
                    ELSE [m |-> SignInt(m) * q2, e |-> e + k]
            : k \in {BitLen(AbsInt(m)) - MantBits}} : TRUE

\* int -> float conversion
FromInt(n) == Round(n, 0)

Neg(a) == [m |-> -(a.m), e |-> a.e]

Abs(a) == [m |-> AbsInt(a.m), e |-> a.e]

\* a + b, correctly rounded
Add(x, y) ==
    CHOOSE r \in
      {IF a.m = 0 THEN b
       ELSE IF b.m = 0 THEN a
       ELSE LET hi == IF a.e >= b.e THEN a ELSE b
                lo == IF a.e >= b.e THEN b ELSE a
                d  == hi.e - lo.e
            IN IF d > MantBits + 1
               THEN hi
               ELSE Round(hi.m * 2^d + lo.m, lo.e)
       : a \in {x}, b \in {y}} : TRUE

Sub(a, b) == Add(a, Neg(b))

\* a * b, correctly rounded
Mul(x, y) ==
    CHOOSE r \in {Round(a.m * b.m, a.e + b.e) : a \in {x}, b \in {y}} : TRUE

\* a / b for b # 0, correctly rounded (two guard bits and a sticky bit)
Div(x, y) ==
    CHOOSE r \in
      {IF a.m = 0 THEN Zero
       ELSE LET n  == AbsInt(a.m) * 2^(MantBits + 2)
                d  == AbsInt(b.m)
                q  == n \div d
                st == IF n % d = 0 THEN 0 ELSE 1
            IN Round(SignInt(a.m) * SignInt(b.m) * (2 * q + st),
                     a.e - b.e - MantBits - 3)
       : a \in {x}, b \in {y}} : TRUE

\* floor of the square root of the non-negative integer n, by bisection
RECURSIVE ISqrtBetween(_, _, _)
ISqrtBetween(n, lo, hi) ==
    IF hi - lo <= 1 THEN lo
    ELSE CHOOSE r \in
           {IF mid * mid <= n THEN ISqrtBetween(n, mid, hi)
                              ELSE ISqrtBetween(n, lo, mid)
            : mid \in {(lo + hi) \div 2}} : TRUE

ISqrt(n) == ISqrtBetween(n, 0, 2^(MantBits + 2))

\* math.sqrt(a) for a >= 0, correctly rounded
Sqrt(x) ==
    CHOOSE r \in
      {IF a.m = 0 THEN Zero
       ELSE LET s == IF (a.e - MantBits - 1) % 2 = 0
                     THEN MantBits + 1 ELSE MantBits + 2
            IN CHOOSE r2 \in
                 {Round(2 * q + (IF q * q = a.m * 2^s THEN 0 ELSE 1),
                        ((a.e - s) \div 2) - 1)
                  : q \in {ISqrt(a.m * 2^s)}} : TRUE
       : a \in {x}} : TRUE

\* a < b
Lt(a, b) == Sub(a, b).m < 0

Le(a, b) == Sub(a, b).m <= 0

Min(x, y) == CHOOSE r \in {IF Lt(b, a) THEN b ELSE a : a \in {x}, b \in {y}} : TRUE

Max(x, y) == CHOOSE r \in {IF Lt(a, b) THEN b ELSE a : a \in {x}, b \in {y}} : TRUE

\* the decimal literal num / den
Dec(num, den) == Div(FromInt(num), FromInt(den))

One == FromInt(1)

Two == FromInt(2)

\* 10^-k, the value of the literal 1e-k
RECURSIVE TenToMinus(_)
TenToMinus(k) == IF k = 0 THEN One ELSE Div(TenToMinus(k - 1), FromInt(10))

\* ------------------------------------------------------------------------
\* Physical constants (refractive_index_checker.py)
\* ------------------------------------------------------------------------
N_VACUUM == One

N_FUSED_SILICA == Dec(145, 100)

N_SMF28_CORE == Dec(14682, 10000)

EPS_VACUUM == Mul(N_VACUUM, N_VACUUM)

EPS_SILICA == Mul(N_FUSED_SILICA, N_FUSED_SILICA)

\* ------------------------------------------------------------------------
\* Effective-medium solvers (refractive_index_checker.py)
\* ------------------------------------------------------------------------
\* the literal 1e-10 guarding the Maxwell-Garnett denominator
MG_DEN_TOL == TenToMinus(10)

\* mutant: the fraction term enters the numerator with the wrong sign
MG_numerator_minus(f_inclusion, eps_inclusion, eps_host) ==
    Sub(Add(eps_host, Mul(Two, eps_inclusion)),
        Mul(Mul(Two, f_inclusion), Sub(eps_inclusion, eps_host)))

MG_numerator(f_inclusion, eps_inclusion, eps_host) ==
    Add(Add(eps_host, Mul(Two, eps_inclusion)),
        Mul(Mul(Two, f_inclusion), Sub(eps_inclusion, eps_host)))

MG_denominator(f_inclusion, eps_inclusion, eps_host) ==
    Sub(Add(eps_host, Mul(Two, eps_inclusion)),
        Mul(f_inclusion, Sub(eps_inclusion, eps_host)))

\* mutant: non-positive permittivities are rejected up front
maxwell_garnett_validating(f_inclusion, eps_inclusion, eps_host) ==
    LET numerator   == MG_numerator(f_inclusion, eps_inclusion, eps_host)
        denominator == MG_denominator(f_inclusion, eps_inclusion, eps_host)
    IN IF \/ Le(eps_inclusion, Zero)
          \/ Le(eps_host, Zero)
          \/ Lt(Abs(denominator), MG_DEN_TOL)
       THEN [err |-> "ValueError", val |-> Zero]
       ELSE [err |-> "none",
             val |-> Div(Mul(eps_host, numerator), denominator)]

\* mutant: the guard forgets the absolute value
maxwell_garnett_signed_guard(f_inclusion, eps_inclusion, eps_host) ==
    LET numerator   == MG_numerator(f_inclusion, eps_inclusion, eps_host)
        denominator == MG_denominator(f_inclusion, eps_inclusion, eps_host)
    IN IF Lt(denominator, MG_DEN_TOL)
       THEN [err |-> "ValueError", val |-> Zero]
       ELSE [err |-> "none",
             val |-> Div(Mul(eps_host, numerator), denominator)]

\* mutant: only a denominator of exactly zero is rejected
maxwell_garnett_zero_guard(f_inclusion, eps_inclusion, eps_host) ==
    LET numerator   == MG_numerator(f_inclusion, eps_inclusion, eps_host)
        denominator == MG_denominator(f_inclusion, eps_inclusion, eps_host)
    IN IF denominator = Zero
       THEN [err |-> "ValueError", val |-> Zero]
       ELSE [err |-> "none",
             val |-> Div(Mul(eps_host, numerator), denominator)]

\* returns [err, val]: err = "ValueError" when the function raises
maxwell_garnett(f_inclusion, eps_inclusion, eps_host) ==
    LET numerator   == MG_numerator(f_inclusion, eps_inclusion, eps_host)
        denominator == MG_denominator(f_inclusion, eps_inclusion, eps_host)
    IN IF Lt(Abs(denominator), MG_DEN_TOL)
       THEN [err |-> "ValueError", val |-> Zero]
       ELSE [err |-> "none",
             val |-> Div(Mul(eps_host, numerator), denominator)]

\* default arguments of bruggeman
BRUGGEMAN_TOL == TenToMinus(10)

BRUGGEMAN_MAX_ITER == 100

\* the literal 1e-15 below which the derivative is treated as stationary
BRUGGEMAN_DERIV_TOL == TenToMinus(15)

\* term = f * (eps - eps_eff) / (eps + 2*eps_eff)
bruggeman_term(f, eps, eps_eff) ==
    Div(Mul(f, Sub(eps, eps_eff)), Add(eps, Mul(Two, eps_eff)))

\* dterm = -f * (eps + 2*eps) / (eps + 2*eps_eff)**2
bruggeman_dterm(f, eps, eps_eff) ==
    LET d == Add(eps, Mul(Two, eps_eff))
    IN Div(Mul(Neg(f), Add(eps, Mul(Two, eps))), Mul(d, d))

\* a float division in the loop body has a zero divisor
bruggeman_divzero(eps1, eps2, eps_eff) ==
    \/ Add(eps1, Mul(Two, eps_eff)).m = 0
    \/ Add(eps2, Mul(Two, eps_eff)).m = 0

\* eps_eff = max(min(eps1, eps2), min(eps_eff, max(eps1, eps2)))
bruggeman_clamp(eps1, eps2, eps_eff) ==
    Max(Min(eps1, eps2), Min(eps_eff, Max(eps1, eps2)))

\* mutant: the bisection fallback is taken on every pass
bruggeman_update_bisect(f1, f2, eps1, eps2, eps_eff, residual) ==
    bruggeman_clamp(eps1, eps2, Div(Add(eps1, eps2), Two))

\* one Newton-Raphson update, with the bisection fallback, then the clamp
bruggeman_update(f1, f2, eps1, eps2, eps_eff, residual) ==
    LET derivative == Add(bruggeman_dterm(f1, eps1, eps_eff),
                          bruggeman_dterm(f2, eps2, eps_eff))
        next == IF Lt(Abs(derivative), BRUGGEMAN_DERIV_TOL)
                THEN Div(Add(eps1, eps2), Two)
                ELSE Sub(eps_eff, Div(residual, derivative))
    IN bruggeman_clamp(eps1, eps2, next)

\* mutant: non-convergence raises instead of returning the estimate
bruggeman_not_converged_raises(max_iter, eps_eff) ==
    [err |-> "RuntimeError", val |-> eps_eff, path |-> "exhausted",
     iterations |-> max_iter, evals |-> max_iter, warned |-> FALSE]

\* after the loop: print the warning to stderr and return the estimate
bruggeman_not_converged(max_iter, eps_eff) ==
    [err |-> "none", val |-> eps_eff, path |-> "exhausted",
     iterations |-> max_iter, evals |-> max_iter, warned |-> TRUE]

\* the state of the for loop: the estimate, the number of completed passes,
\* the number of residual evaluations, and whether the loop is still running,
\* has returned ("converged") or has raised ("raised")
bruggeman_start(eps_eff) ==
    [eps_eff |-> eps_eff, iteration |-> 0, evals |-> 0, status |-> "running"]

\* one pass of the loop body; a loop that has returned or raised stays put
bruggeman_pass(f1, f2, eps1, eps2, tol, st) ==
    IF st.status # "running" THEN st
    ELSE IF bruggeman_divzero(eps1, eps2, st.eps_eff)
    THEN [st EXCEPT !.status = "raised"]
    ELSE LET residual == Add(bruggeman_term(f1, eps1, st.eps_eff),
                             bruggeman_term(f2, eps2, st.eps_eff))
         IN IF Lt(Abs(residual), tol)
            THEN [st EXCEPT !.status = "converged", !.evals = @ + 1]
            ELSE [eps_eff   |-> bruggeman_update(f1, f2, eps1, eps2,
                                                 st.eps_eff, residual),
                  iteration |-> st.iteration + 1,
                  evals     |-> st.evals + 1,
                  status    |-> "running"]

\* n consecutive passes from the loop state st (split in halves to keep the
\* evaluation shallow)
RECURSIVE bruggeman_loop(_, _, _, _, _, _, _)
bruggeman_loop(f1, f2, eps1, eps2, tol, n, st) ==
    IF n = 0 THEN st
    ELSE IF n = 1 THEN bruggeman_pass(f1, f2, eps1, eps2, tol, st)
    ELSE CHOOSE r \in
           {IF mid.status # "running" THEN mid
            ELSE bruggeman_loop(f1, f2, eps1, eps2, tol, n - (n \div 2), mid)
            : mid \in {bruggeman_loop(f1, f2, eps1, eps2, tol, n \div 2, st)}}
           : TRUE

\* mutant: the loop runs one pass more than max_iter
bruggeman_one_more_pass(f1, eps1, eps2, tol, max_iter) ==
    CHOOSE r \in
      {IF st.status = "running"
       THEN [err |-> "none", val |-> st.eps_eff, path |-> "exhausted",
             iterations |-> st.iteration, evals |-> st.evals,
             warned |-> TRUE]
       ELSE IF st.status = "raised"
       THEN [err |-> "ZeroDivisionError", val |-> st.eps_eff,
             path |-> "raised", iterations |-> st.iteration,
             evals |-> st.evals, warned |-> FALSE]
       ELSE [err |-> "none", val |-> st.eps_eff, path |-> "converged",
             iterations |-> st.iteration, evals |-> st.evals,
             warned |-> FALSE]
       : st \in {bruggeman_loop(f1, Sub(One, f1), eps1, eps2, tol,
                                max_iter + 1,
                                bruggeman_start(Add(Mul(f1, eps1),
                                                    Mul(Sub(One, f1), eps2))))}}
      : TRUE

\* returns [err, val, path, iterations, evals, warned]; val is the float the
\* function returns (the estimate at which it raised, when it raises), warned
\* tells whether the warning went to stderr, path, iterations and evals
\* record how the function got there
bruggeman(f1, eps1, eps2, tol, max_iter) ==
    CHOOSE r \in
      {IF st.status = "running"
       THEN bruggeman_not_converged(max_iter, st.eps_eff)
       ELSE IF st.status = "raised"
       THEN [err |-> "ZeroDivisionError", val |-> st.eps_eff,
             path |-> "raised", iterations |-> st.iteration,
             evals |-> st.evals, warned |-> FALSE]
       ELSE [err |-> "none", val |-> st.eps_eff, path |-> "converged",
             iterations |-> st.iteration, evals |-> st.evals,
             warned |-> FALSE]
       : st \in {bruggeman_loop(f1, Sub(One, f1), eps1, eps2, tol, max_iter,
                     bruggeman_start(Add(Mul(f1, eps1),
                                         Mul(Sub(One, f1), eps2))))}} : TRUE

\* math.sqrt of the result of a maxwell_garnett call: [err, val], with err =
\* "ValueError" when maxwell_garnett raised or its result is negative
sensitivity_index(mg) ==
    IF mg.err # "none" \/ mg.val.m < 0
    THEN [err |-> "ValueError", val |-> Zero]
    ELSE [err |-> "none", val |-> Sqrt(mg.val)]

\* returns the dict of sensitivity coefficients, with err = "ValueError"
\* when one of the five index evaluations raises
sensitivity_analysis(solid_fraction, n_solid, delta_f, delta_n) ==
    LET eps_solid       == Mul(n_solid, n_solid)
        n_base          == sensitivity_index(
                               maxwell_garnett(Sub(One, solid_fraction),
                                               EPS_VACUUM, eps_solid))
        n_plus_f        == sensitivity_index(
                               maxwell_garnett(
                                   Sub(One, Add(solid_fraction, delta_f)),
                                   EPS_VACUUM, eps_solid))
        n_minus_f       == sensitivity_index(
                               maxwell_garnett(
                                   Sub(One, Sub(solid_fraction, delta_f)),
                                   EPS_VACUUM, eps_solid))
        dn_df           == Div(Sub(n_plus_f.val, n_minus_f.val),
                               Mul(Two, delta_f))
        eps_solid_plus  == Mul(Add(n_solid, delta_n), Add(n_solid, delta_n))
        eps_solid_minus == Mul(Sub(n_solid, delta_n), Sub(n_solid, delta_n))
        n_plus_n        == sensitivity_index(
                               maxwell_garnett(Sub(One, solid_fraction),
                                               EPS_VACUUM, eps_solid_plus))
        n_minus_n       == sensitivity_index(
                               maxwell_garnett(Sub(One, solid_fraction),
                                               EPS_VACUUM, eps_solid_minus))
        dn_dns          == Div(Sub(n_plus_n.val, n_minus_n.val),
                               Mul(Two, delta_n))
    IN IF \E r \in {n_base, n_plus_f, n_minus_f, n_plus_n, n_minus_n} :
              r.err # "none"
       THEN [err |-> "ValueError", n_eff |-> Zero,
             dn_dsolid_fraction |-> Zero, dn_dn_solid |-> Zero,
             delta_n_for_1pct_f_error |-> Zero,
             delta_n_for_1pct_n_error |-> Zero]
       ELSE [err |-> "none", n_eff |-> n_base.val,
             dn_dsolid_fraction |-> dn_df, dn_dn_solid |-> dn_dns,
             delta_n_for_1pct_f_error |-> Abs(Mul(dn_df, Dec(1, 100))),
             delta_n_for_1pct_n_error
                 |-> Abs(Mul(Mul(dn_dns, n_solid), Dec(1, 100)))]

linear_average(f1, n1, n2) ==
    LET f2 == Sub(One, f1)
    IN Add(Mul(f1, n1), Mul(f2, n2))

\* ------------------------------------------------------------------------
\* Bruggeman solver of figures/generate_figures.py (returns the index)
\* ------------------------------------------------------------------------
\* maxwell_garnett of generate_figures.py: the index, not the permittivity
fig_maxwell_garnett(f_void, n_solid) ==
    LET eps_solid == Mul(n_solid, n_solid)
        eps_void  == One
        f_solid   == Sub(One, f_void)
        eps_eff   == Add(eps_void, Mul(f_solid, Sub(eps_solid, eps_void)))
    IN Sqrt(eps_eff)

FIG_BRUGGEMAN_ITERATIONS == 100

fig_bruggeman_update(f_void, f_solid, eps_void, eps_solid, eps_eff, residual) ==
    LET derivative == Add(bruggeman_dterm(f_void, eps_void, eps_eff),
                          bruggeman_dterm(f_solid, eps_solid, eps_eff))
        next == IF Lt(BRUGGEMAN_DERIV_TOL, Abs(derivative))
                THEN Sub(eps_eff, Div(residual, derivative))
                ELSE eps_eff
    IN Max(One, Min(next, eps_solid))

\* one pass of the loop body; after the break the loop state stays put
fig_bruggeman_pass(f_void, f_solid, eps_void, eps_solid, tol, st) ==
    IF st.status # "running" THEN st
    ELSE LET residual == Add(bruggeman_term(f_void, eps_void, st.eps_eff),
                             bruggeman_term(f_solid, eps_solid, st.eps_eff))
         IN IF Lt(Abs(residual), tol)
            THEN [st EXCEPT !.status = "converged", !.evals = @ + 1]
            ELSE [eps_eff   |-> fig_bruggeman_update(f_void, f_solid, eps_void,
                                    eps_solid, st.eps_eff, residual),
                  iteration |-> st.iteration + 1,
                  evals     |-> st.evals + 1,
                  status    |-> "running"]

\* n consecutive passes from the loop state st
RECURSIVE fig_bruggeman_loop(_, _, _, _, _, _, _)
fig_bruggeman_loop(f_void, f_solid, eps_void, eps_solid, tol, n, st) ==
    IF n = 0 THEN st
    ELSE IF n = 1
    THEN fig_bruggeman_pass(f_void, f_solid, eps_void, eps_solid, tol, st)
    ELSE CHOOSE r \in
           {IF mid.status # "running" THEN mid
            ELSE fig_bruggeman_loop(f_void, f_solid, eps_void, eps_solid,
                                    tol, n - (n \div 2), mid)
            : mid \in {fig_bruggeman_loop(f_void, f_solid, eps_void,
                                          eps_solid, tol, n \div 2, st)}}
           : TRUE

\* returns [err, val, path, iterations, warned]: val is the index returned,
\* path tells whether the loop ended by break or by exhaustion
fig_bruggeman(f_void, n_solid, tol) ==
    LET eps_solid == Mul(n_solid, n_solid)
        eps_void  == One
        f_solid   == Sub(One, f_void)
    IN CHOOSE r \in
         {[err |-> "none", val |-> Sqrt(st.eps_eff),
           path |-> IF st.status = "running" THEN "exhausted" ELSE "converged",
           iterations |-> st.iteration, warned |-> FALSE]
          : st \in {fig_bruggeman_loop(f_void, f_solid, eps_void, eps_solid,
                        tol, FIG_BRUGGEMAN_ITERATIONS,
                        bruggeman_start(Add(Mul(f_void, eps_void),
                                            Mul(f_solid, eps_solid))))}} : TRUE

\* ------------------------------------------------------------------------
\* Dispersion model (refractive_index_checker.py)
\* ------------------------------------------------------------------------
SELLMEIER_B == <<Dec(6961663, 10000000), Dec(4079426, 10000000),
                 Dec(8974794, 10000000)>>

SELLMEIER_C == <<Dec(684043, 10000000), Dec(1162414, 10000000),
                 Dec(9896161, 1000000)>>

\* B * lam2 / (lam2 - C)
sellmeier_term(B, C, lam2) == Div(Mul(B, lam2), Sub(lam2, C))

\* returns [err, val]: the index, ZeroDivisionError when lam2 equals one of
\* the C coefficients, ValueError (math domain error) when math.sqrt is
\* handed a negative n_squared
sellmeier_silica(wavelength_um) ==
    CHOOSE r \in
      {IF \E i \in 1..3 : Sub(lam2, SELLMEIER_C[i]) = Zero
       THEN [err |-> "ZeroDivisionError", val |-> Zero]
       ELSE CHOOSE q \in
              {IF Lt(n_squared, Zero)
               THEN [err |-> "ValueError", val |-> Zero]
               ELSE [err |-> "none", val |-> Sqrt(n_squared)]
               : n_squared \in
                   {Add(Add(Add(One,
                                sellmeier_term(SELLMEIER_B[1], SELLMEIER_C[1],
                                               lam2)),
                            sellmeier_term(SELLMEIER_B[2], SELLMEIER_C[2],
                                           lam2)),
                        sellmeier_term(SELLMEIER_B[3], SELLMEIER_C[3],
                                       lam2))}} : TRUE
       : lam2 \in {Mul(wavelength_um, wavelength_um)}} : TRUE

\* ------------------------------------------------------------------------
\* calculate_refractive_index (refractive_index_checker.py): the three
\* effective indices it computes, or exit status 1 on invalid input
\* ------------------------------------------------------------------------
calculate_refractive_index(solid_fraction_pct) ==
    IF ~(Lt(Zero, solid_fraction_pct) /\ Lt(solid_fraction_pct, FromInt(100)))
    THEN [exit |-> 1, void_fraction |-> Zero, n_eff_mg |-> Zero,
          n_eff_br |-> Zero, n_eff_linear |-> Zero, warned |-> FALSE]
    ELSE CHOOSE r \in
           {[exit |-> 0, void_fraction |-> void_fraction,
             n_eff_mg |-> Sqrt(maxwell_garnett(void_fraction, EPS_VACUUM,
                                               EPS_SILICA).val),
             n_eff_br |-> Sqrt(br.val),
             n_eff_linear |-> linear_average(void_fraction, N_VACUUM,
                                             N_FUSED_SILICA),
             warned |-> br.warned]
            : void_fraction \in
                  {Sub(One, Div(solid_fraction_pct, FromInt(100)))},
              br \in
                  {bruggeman(Sub(One, Div(solid_fraction_pct, FromInt(100))),
                             EPS_VACUUM, EPS_SILICA,
                             BRUGGEMAN_TOL, BRUGGEMAN_MAX_ITER)}} : TRUE

\* ------------------------------------------------------------------------
\* Latency model (latency_calculator.py)
\* ------------------------------------------------------------------------
C_VACUUM_M_S == 299792458

\* the literal 1e9 (seconds to nanoseconds)
NS_PER_S == FromInt(1000000000)

MEDIA_INDICES ==
    [vacuum       |-> Dec(10000, 10000),
     hollow_core  |-> Dec(10030, 10000),
     superluminal |-> Dec(11524, 10000),
     smf28        |-> Dec(14682, 10000),
     multimode    |-> Dec(14900, 10000)]

MEDIA_NAMES ==
    [vacuum       |-> "Vacuum (theoretical)",
     hollow_core  |-> "Hollow-Core PCF",
     superluminal |-> "Superluminal Glass (Patent 4)",
     smf28        |-> "SMF-28 Standard Fiber",
     multimode    |-> "OM4 Multimode Fiber"]

SYSTEM_OVERHEAD_NS ==
    [serdes_tx |-> 50, serdes_rx |-> 50, fec_encode |-> 50,
     fec_decode |-> 50, switch_fabric |-> 200]

OVERHEAD_SCENARIOS ==
    [none       |-> [serdes |-> FALSE, fec |-> FALSE, switches |-> 0],
     minimal    |-> [serdes |-> TRUE,  fec |-> FALSE, switches |-> 0],
     typical    |-> [serdes |-> TRUE,  fec |-> TRUE,  switches |-> 1],
     spine_leaf |-> [serdes |-> TRUE,  fec |-> TRUE,  switches |-> 2],
     fat_tree   |-> [serdes |-> TRUE,  fec |-> TRUE,  switches |-> 3]]

\* one-way time of flight in ns: distance * n / c * 1e9
calculate_tof_ns(distance_m, refractive_index) ==
    LET time_seconds == Div(Mul(distance_m, refractive_index),
                            FromInt(C_VACUUM_M_S))
    IN Mul(time_seconds, NS_PER_S)

\* mutant: an unknown scenario is silently taken as no overhead
calculate_system_overhead_ns_defaulting(scenario) ==
    IF scenario \notin DOMAIN OVERHEAD_SCENARIOS
    THEN [err |-> "none", total |-> 0,
          breakdown |-> [serdes |-> 0, fec |-> 0, switches |-> 0]]
    ELSE LET config == OVERHEAD_SCENARIOS[scenario]
             breakdown ==
                 [serdes   |-> IF config.serdes
                               THEN SYSTEM_OVERHEAD_NS.serdes_tx
                                    + SYSTEM_OVERHEAD_NS.serdes_rx
                               ELSE 0,
                  fec      |-> IF config.fec
                               THEN SYSTEM_OVERHEAD_NS.fec_encode
                                    + SYSTEM_OVERHEAD_NS.fec_decode
                               ELSE 0,
                  switches |-> config.switches
                               * SYSTEM_OVERHEAD_NS.switch_fabric]
         IN [err |-> "none",
             total |-> breakdown.serdes + breakdown.fec + breakdown.switches,
             breakdown |-> breakdown]

\* returns [err, total, breakdown]; the overheads are Python ints
calculate_system_overhead_ns(scenario) ==
    IF scenario \notin DOMAIN OVERHEAD_SCENARIOS
    THEN [err |-> "ValueError", total |-> 0,
          breakdown |-> [serdes |-> 0, fec |-> 0, switches |-> 0]]
    ELSE LET config == OVERHEAD_SCENARIOS[scenario]
             breakdown ==
                 [serdes   |-> IF config.serdes
                               THEN SYSTEM_OVERHEAD_NS.serdes_tx
                                    + SYSTEM_OVERHEAD_NS.serdes_rx
                               ELSE 0,
                  fec      |-> IF config.fec
                               THEN SYSTEM_OVERHEAD_NS.fec_encode
                                    + SYSTEM_OVERHEAD_NS.fec_decode
                               ELSE 0,
                  switches |-> config.switches
                               * SYSTEM_OVERHEAD_NS.switch_fabric]
         IN [err |-> "none",
             total |-> breakdown.serdes + breakdown.fec + breakdown.switches,
             breakdown |-> breakdown]

\* the result of a call that raised
link_latency_error ==
    [err |-> "ValueError", refractive_index |-> Zero, tof_ns |-> Zero,
     overhead_ns |-> 0, total_ns |-> Zero, tof_fraction |-> Zero]

\* mutant: the time of flight ignores round_trip
calculate_link_latency_one_way(distance_m, media_type, scenario, round_trip) ==
    IF media_type \notin DOMAIN MEDIA_INDICES
    THEN link_latency_error
    ELSE LET n              == MEDIA_INDICES[media_type]
             tof_ns         == calculate_tof_ns(distance_m, n)
             overhead       == calculate_system_overhead_ns(scenario)
             overhead_ns    == overhead.total * (IF round_trip THEN 2 ELSE 1)
             total_ns       == Add(tof_ns, FromInt(overhead_ns))
         IN IF overhead.err # "none"
            THEN link_latency_error
            ELSE [err |-> "none", refractive_index |-> n, tof_ns |-> tof_ns,
                  overhead_ns |-> overhead_ns, total_ns |-> total_ns,
                  tof_fraction |-> IF Lt(Zero, total_ns)
                                   THEN Div(tof_ns, total_ns) ELSE One]

\* mutant: the overhead is counted once, whatever round_trip is
calculate_link_latency_overhead_once(distance_m, media_type, scenario, round_trip) ==
    IF media_type \notin DOMAIN MEDIA_INDICES
    THEN link_latency_error
    ELSE LET n              == MEDIA_INDICES[media_type]
             tof_one_way_ns == calculate_tof_ns(distance_m, n)
             tof_ns         == Mul(tof_one_way_ns,
                                   FromInt(IF round_trip THEN 2 ELSE 1))
             overhead       == calculate_system_overhead_ns(scenario)
             overhead_ns    == overhead.total
             total_ns       == Add(tof_ns, FromInt(overhead_ns))
         IN IF overhead.err # "none"
            THEN link_latency_error
            ELSE [err |-> "none", refractive_index |-> n, tof_ns |-> tof_ns,
                  overhead_ns |-> overhead_ns, total_ns |-> total_ns,
                  tof_fraction |-> IF Lt(Zero, total_ns)
                                   THEN Div(tof_ns, total_ns) ELSE One]

\* mutant: a link of total latency 0 reports tof_fraction 0 instead of 1.0
calculate_link_latency_zero_fraction(distance_m, media_type, scenario, round_trip) ==
    IF media_type \notin DOMAIN MEDIA_INDICES
    THEN link_latency_error
    ELSE LET n              == MEDIA_INDICES[media_type]
             tof_one_way_ns == calculate_tof_ns(distance_m, n)
             tof_ns         == Mul(tof_one_way_ns,
                                   FromInt(IF round_trip THEN 2 ELSE 1))
             overhead       == calculate_system_overhead_ns(scenario)
             overhead_ns    == overhead.total * (IF round_trip THEN 2 ELSE 1)
             total_ns       == Add(tof_ns, FromInt(overhead_ns))
         IN IF overhead.err # "none"
            THEN link_latency_error
            ELSE [err |-> "none", refractive_index |-> n, tof_ns |-> tof_ns,
                  overhead_ns |-> overhead_ns, total_ns |-> total_ns,
                  tof_fraction |-> IF Lt(Zero, total_ns)
                                   THEN Div(tof_ns, total_ns) ELSE Zero]

\* returns the result dict, with err = "ValueError" when the call raises
calculate_link_latency(distance_m, media_type, scenario, round_trip) ==
    IF media_type \notin DOMAIN MEDIA_INDICES
    THEN link_latency_error
    ELSE LET n              == MEDIA_INDICES[media_type]
             tof_one_way_ns == calculate_tof_ns(distance_m, n)
             tof_ns         == Mul(tof_one_way_ns,
                                   FromInt(IF round_trip THEN 2 ELSE 1))
             overhead       == calculate_system_overhead_ns(scenario)
             overhead_ns    == overhead.total * (IF round_trip THEN 2 ELSE 1)
             total_ns       == Add(tof_ns, FromInt(overhead_ns))
         IN IF overhead.err # "none"
            THEN link_latency_error
            ELSE [err |-> "none", refractive_index |-> n, tof_ns |-> tof_ns,
                  overhead_ns |-> overhead_ns, total_ns |-> total_ns,
                  tof_fraction |-> IF Lt(Zero, total_ns)
                                   THEN Div(tof_ns, total_ns) ELSE One]

\* the result of calculate_link_latency with the two savings entries that
\* compare_media adds to it
compare_media_entry(link, smf_tof) ==
    LET savings == Sub(smf_tof, link.tof_ns)
    IN [refractive_index     |-> link.refractive_index,
        tof_ns               |-> link.tof_ns,
        overhead_ns          |-> link.overhead_ns,
        total_ns             |-> link.total_ns,
        tof_fraction         |-> link.tof_fraction,
        savings_vs_smf28_ns  |-> savings,
        savings_vs_smf28_pct |-> IF Lt(Zero, smf_tof)
                                 THEN Mul(Div(savings, smf_tof), FromInt(100))
                                 ELSE Zero]

\* mutant: the indices are normalised to SMF-28 in the table itself
compare_media_in_place(t, distance_m, scenario, round_trip) ==
    LET smf == calculate_link_latency(distance_m, "smf28", scenario,
                                      round_trip)
    IN IF smf.err # "none"
       THEN [err |-> "ValueError", results |-> <<>>, tables |-> t]
       ELSE [err     |-> "none",
             results |-> [media_type \in DOMAIN t.MEDIA_INDICES |->
                            compare_media_entry(
                                calculate_link_latency(distance_m, media_type,
                                                       scenario, round_trip),
                                smf.tof_ns)],
             tables  |-> [t EXCEPT !.MEDIA_INDICES =
                            [media_type \in DOMAIN t.MEDIA_INDICES |->
                               Div(t.MEDIA_INDICES[media_type],
                                   t.MEDIA_INDICES["smf28"])]]]

\* compare_media run with the module tables t: returns [err, results,
\* tables], results the dict it returns (one entry per key of
\* MEDIA_INDICES) and tables the module tables as the call leaves them; the
\* only writes of the function go to its own results dict and to the dicts
\* calculate_link_latency built for it.  err = "ValueError" when the first
\* calculate_link_latency raises (unknown scenario).
compare_media(t, distance_m, scenario, round_trip) ==
    LET smf == calculate_link_latency(distance_m, "smf28", scenario,
                                      round_trip)
    IN IF smf.err # "none"
       THEN [err |-> "ValueError", results |-> <<>>, tables |-> t]
       ELSE [err     |-> "none",
             results |-> [media_type \in DOMAIN t.MEDIA_INDICES |->
                            compare_media_entry(
                                calculate_link_latency(distance_m, media_type,
                                                       scenario, round_trip),
                                smf.tof_ns)],
             tables  |-> t]

\* ------------------------------------------------------------------------
\* Media benchmark (calculate_optical_latency.py)
\* ------------------------------------------------------------------------
\* the name and refractive_index of each OpticalMedium (description and
\* source are free text no function reads)
OPTICAL_MEDIA ==
    [vacuum       |-> [name |-> "Vacuum",
                       refractive_index |-> Dec(10000, 10000)],
     air          |-> [name |-> "Air (STP)",
                       refractive_index |-> Dec(1000293, 1000000)],
     hollow_core  |-> [name |-> "Hollow-Core Fiber",
                       refractive_index |-> Dec(1003, 1000)],
     low_index    |-> [name |-> "Low-Index Glass (?)",
                       refractive_index |-> Dec(115, 100)],
     fused_silica |-> [name |-> "Fused Silica",
                       refractive_index |-> Dec(14440, 10000)],
     smf28        |-> [name |-> "SMF-28 Fiber",
                       refractive_index |-> Dec(14682, 10000)],
     silicon      |-> [name |-> "Silicon Waveguide",
                       refractive_index |-> Dec(348, 100)]]

\* one-way propagation latency in ns of a medium object
calculate_latency_ns(distance_m, medium) ==
    LET latency_s == Div(Mul(distance_m, medium.refractive_index),
                         FromInt(C_VACUUM_M_S))
    IN Mul(latency_s, NS_PER_S)

\* ------------------------------------------------------------------------
\* Cluster analyser (analyze_nvidia_cluster.py)
\* ------------------------------------------------------------------------
\* mutant: the factor 2 of the round trip is dropped
analyze_calculate_tof_ns_one_way(distance_m, n) ==
    Mul(Div(Mul(distance_m, n), FromInt(C_VACUUM_M_S)), NS_PER_S)

\* round-trip time of flight in ns: 2 * distance * n / c * 1e9
analyze_calculate_tof_ns(distance_m, n) ==
    Mul(Div(Mul(Mul(Two, distance_m), n), FromInt(C_VACUUM_M_S)), NS_PER_S)

\* an optional value: Python's None, or a value that is present
None == [some |-> FALSE, val |-> Zero]

Some(x) == [some |-> TRUE, val |-> x]

\* dict.get(key, default)
Get(opt, default) == IF opt.some THEN opt.val ELSE default

N_STANDARD_FIBER == Dec(14682, 10000)

N_SUPERLUMINAL == Dec(11524, 10000)

DEFAULT_GPU_HOUR_COST_USD == FromInt(2)

SECONDS_PER_DAY == 86400

DAYS_PER_YEAR == 365

SYSTEM_OVERHEAD ==
    [serdes_round_trip |-> 200, fec_round_trip |-> 200, switch_per_hop |-> 200]

\* override_syncs_per_sec or cluster.get("syncs_per_second", 1000): Python's
\* "or" takes the right operand when the left one is None or zero
analyze_syncs_per_second(config, override_syncs_per_sec) ==
    IF override_syncs_per_sec.some /\ override_syncs_per_sec.val # Zero
    THEN override_syncs_per_sec.val
    ELSE Get(config.syncs_per_second, FromInt(1000))

\* mutant: the override is taken with "or", so that 0.0 falls through
analyze_fiber_fraction_or(config, override_fiber_fraction) ==
    IF override_fiber_fraction.some /\ override_fiber_fraction.val # Zero
    THEN override_fiber_fraction.val
    ELSE Get(config.fiber_fraction, Dec(70, 100))

\* override_fiber_fraction if override_fiber_fraction is not None
\* else cluster.get("fiber_fraction", 0.70)
analyze_fiber_fraction(config, override_fiber_fraction) ==
    IF override_fiber_fraction.some
    THEN override_fiber_fraction.val
    ELSE Get(config.fiber_fraction, Dec(70, 100))

\* interconnect.get("typical_cluster_distance_m",
\*                  interconnect.get("external_fabric_distance_m", 100))
analyze_cluster_distance_m(config) ==
    Get(config.typical_cluster_distance_m,
        Get(config.external_fabric_distance_m, FromInt(100)))

\* mutant: every sync counts, whatever the fiber fraction
analyze_projection_all_syncs(total_gpus, hops_per_sync, syncs_per_second, fiber_fraction, total_latency_per_hop_smf, savings_per_hop_ns, gpu_hour_cost) ==
    CHOOSE r \in
      {[effective_fiber_syncs_per_second |-> syncs_per_second,
        savings_per_sync_ns |-> Mul(hops_per_sync, savings_per_hop_ns),
        daily_latency_tax_gpu_hours |-> daily_tax,
        daily_savings_gpu_hours |-> daily_savings,
        annual_latency_tax_gpu_hours |->
            Mul(daily_tax, FromInt(DAYS_PER_YEAR)),
        annual_savings_gpu_hours |-> annual_savings,
        annual_savings_usd |-> Mul(annual_savings, gpu_hour_cost)]
       : daily_tax \in
           {Div(Mul(Div(Mul(Mul(syncs_per_second, FromInt(SECONDS_PER_DAY)),
                            Mul(hops_per_sync, total_latency_per_hop_smf)),
                        NS_PER_S),
                    total_gpus),
                FromInt(3600))},
         daily_savings \in
           {Div(Mul(Div(Mul(Mul(syncs_per_second, FromInt(SECONDS_PER_DAY)),
                            Mul(hops_per_sync, savings_per_hop_ns)),
                        NS_PER_S),
                    total_gpus),
                FromInt(3600))},
         annual_savings \in
           {Mul(Div(Mul(Div(Mul(Mul(syncs_per_second,
                                    FromInt(SECONDS_PER_DAY)),
                                Mul(hops_per_sync, savings_per_hop_ns)),
                            NS_PER_S),
                        total_gpus),
                    FromInt(3600)),
                FromInt(DAYS_PER_YEAR))}} : TRUE

\* the economic impact: the daily latency tax and savings in GPU-hours and
\* their annual projections
analyze_projection(total_gpus, hops_per_sync, syncs_per_second, fiber_fraction, total_latency_per_hop_smf, savings_per_hop_ns, gpu_hour_cost) ==
    CHOOSE r \in
      {[effective_fiber_syncs_per_second |-> effective,
        savings_per_sync_ns |-> Mul(hops_per_sync, savings_per_hop_ns),
        daily_latency_tax_gpu_hours |-> daily_tax,
        daily_savings_gpu_hours |-> daily_savings,
        annual_latency_tax_gpu_hours |->
            Mul(daily_tax, FromInt(DAYS_PER_YEAR)),
        annual_savings_gpu_hours |-> annual_savings,
        annual_savings_usd |-> Mul(annual_savings, gpu_hour_cost)]
       : effective \in {Mul(syncs_per_second, fiber_fraction)},
         daily_tax \in
           {Div(Mul(Div(Mul(Mul(Mul(syncs_per_second, fiber_fraction),
                                FromInt(SECONDS_PER_DAY)),
                            Mul(hops_per_sync, total_latency_per_hop_smf)),
                        NS_PER_S),
                    total_gpus),
                FromInt(3600))},
         daily_savings \in
           {Div(Mul(Div(Mul(Mul(Mul(syncs_per_second, fiber_fraction),
                                FromInt(SECONDS_PER_DAY)),
                            Mul(hops_per_sync, savings_per_hop_ns)),
                        NS_PER_S),
                    total_gpus),
                FromInt(3600))},
         annual_savings \in
           {Mul(Div(Mul(Div(Mul(Mul(Mul(syncs_per_second, fiber_fraction),
                                    FromInt(SECONDS_PER_DAY)),
                                Mul(hops_per_sync, savings_per_hop_ns)),
                            NS_PER_S),
                        total_gpus),
                    FromInt(3600)),
                FromInt(DAYS_PER_YEAR))}} : TRUE

\* the result dict of analyze_cluster
analyze_cluster(config, include_system_overhead, override_fiber_fraction, override_syncs_per_sec, gpu_hour_cost) ==
    CHOOSE r \in
      {[total_gpus |-> Get(config.total_gpus, FromInt(256)),
        cluster_distance_m |-> analyze_cluster_distance_m(config),
        syncs_per_second |-> syncs_per_second,
        fiber_fraction |-> fiber_fraction,
        hops_per_sync |-> Get(config.gradient_sync_hops, FromInt(4)),
        include_system_overhead |-> include_system_overhead,
        overhead_per_hop_ns |-> overhead_per_hop_ns,
        tof_smf_ns |-> tof_smf_ns,
        tof_super_ns |-> tof_super_ns,
        savings_per_hop_ns |-> Sub(tof_smf_ns, tof_super_ns),
        total_latency_per_hop_smf |-> total_latency_per_hop_smf,
        tof_fraction |-> IF Lt(Zero, total_latency_per_hop_smf)
                         THEN Div(tof_smf_ns, total_latency_per_hop_smf)
                         ELSE One,
        wasted_ops_per_hop |->
            Mul(tof_smf_ns,
                Mul(Get(config.fp8_tflops, FromInt(3958)), FromInt(1000))),
        gpu_hour_cost |-> gpu_hour_cost,
        projection |->
            analyze_projection(Get(config.total_gpus, FromInt(256)),
                               Get(config.gradient_sync_hops, FromInt(4)),
                               syncs_per_second, fiber_fraction,
                               total_latency_per_hop_smf,
                               Sub(tof_smf_ns, tof_super_ns), gpu_hour_cost)]
       : syncs_per_second \in
           {analyze_syncs_per_second(config, override_syncs_per_sec)},
         fiber_fraction \in
           {analyze_fiber_fraction(config, override_fiber_fraction)},
         overhead_per_hop_ns \in
           {IF include_system_overhead
            THEN SYSTEM_OVERHEAD.serdes_round_trip
                 + SYSTEM_OVERHEAD.fec_round_trip
                 + SYSTEM_OVERHEAD.switch_per_hop
            ELSE 0},
         tof_smf_ns \in
           {analyze_calculate_tof_ns(analyze_cluster_distance_m(config),
                                     N_STANDARD_FIBER)},
         tof_super_ns \in
           {analyze_calculate_tof_ns(analyze_cluster_distance_m(config),
                                     N_SUPERLUMINAL)},
         total_latency_per_hop_smf \in
           {Add(analyze_calculate_tof_ns(analyze_cluster_distance_m(config),
                                         N_STANDARD_FIBER),
                FromInt(IF include_system_overhead
                        THEN SYSTEM_OVERHEAD.serdes_round_trip
                             + SYSTEM_OVERHEAD.fec_round_trip
                             + SYSTEM_OVERHEAD.switch_per_hop
                        ELSE 0))}} : TRUE

SENSITIVITY_SYNC_RATES == <<100, 500, 1000, 2000, 5000, 10000>>

\* print_sensitivity_table: the annual savings in USD of the table's rows,
\* one analyze_cluster call per sync rate
print_sensitivity_table(config, gpu_hour_cost) ==
    [i \in DOMAIN SENSITIVITY_SYNC_RATES |->
        analyze_cluster(config, FALSE, None,
                        Some(FromInt(SENSITIVITY_SYNC_RATES[i])),
                        gpu_hour_cost).projection.annual_savings_usd]

\* The configs directory is a set of files [name, kind, config]: name is
\* the file's stem as a sequence of parts (<<"nvidia_", "h100">> is
\* nvidia_h100.json), kind tells what the file holds ("object": a JSON
\* object, "array": valid JSON that is not an object, "bad_json": not JSON)
FileExists(config_dir, name) == \E f \in config_dir : f.name = name

ReadFile(config_dir, name) == CHOOSE f \in config_dir : f.name = name

\* load_config: [err, file]
load_config(config_name, config_dir) ==
    LET config_path == IF FileExists(config_dir, config_name)
                       THEN config_name
                       ELSE <<"nvidia_">> \o config_name
    IN IF ~FileExists(config_dir, config_path)
       THEN [err |-> "FileNotFoundError", kind |-> "none"]
       ELSE IF ReadFile(config_dir, config_path).kind = "bad_json"
            THEN [err |-> "JSONDecodeError", kind |-> "bad_json"]
            ELSE [err |-> "none",
                  kind |-> ReadFile(config_dir, config_path).kind,
                  config |-> ReadFile(config_dir, config_path).config]

\* the names config_dir.glob("nvidia_*.json") can yield, in any order
GlobNvidia(config_dir) ==
    LET stems == {f.name : f \in {g \in config_dir : g.name[1] = "nvidia_"}}
    IN {q \in [1..Cardinality(stems) -> stems] :
            \A i, j \in DOMAIN q : q[i] = q[j] => i = j}

ERROR_FIBER_FRACTION == "ERROR: fiber-fraction must be between 0.0 and 1.0"

ERROR_CONFIG_NOT_FOUND == "ERROR: Config not found"

ERROR_INVALID_JSON == "ERROR: Invalid JSON"

TRACEBACK_ATTRIBUTE_ERROR == "Traceback: AttributeError"

\* the state of main before its loop
main_start ==
    [exit |-> 0, crashed |-> FALSE, stdout |-> <<>>, stderr |-> <<>>,
     all_results |-> <<>>, tables |-> <<>>]

\* one pass of main's loop over config_names
main_pass(st, config_name, a, config_dir) ==
    IF st.crashed
    THEN st
    ELSE CHOOSE r \in
      {CASE l.err = "FileNotFoundError" ->
              [s EXCEPT !.stderr = Append(@, ERROR_CONFIG_NOT_FOUND)]
         [] l.err = "JSONDecodeError" ->
              [s EXCEPT !.stderr = Append(@, ERROR_INVALID_JSON)]
         [] l.err = "none" /\ l.kind = "array" ->
              [s EXCEPT !.crashed = TRUE, !.exit = 1,
                        !.stderr = Append(@, TRACEBACK_ATTRIBUTE_ERROR)]
         [] OTHER ->
              IF a.sensitivity
              THEN [s EXCEPT
                      !.stdout = Append(@, "sensitivity"),
                      !.tables = Append(@, print_sensitivity_table(
                                               l.config, a.gpu_cost))]
              ELSE [s EXCEPT
                      !.stdout = IF a.json THEN @ ELSE Append(@, "analysis"),
                      !.all_results =
                          Append(@, analyze_cluster(
                                        l.config, a.include_system_overhead,
                                        a.fiber_fraction, a.syncs_per_sec,
                                        a.gpu_cost))]
       : l \in {load_config(config_name, config_dir)}, s \in {st}} : TRUE

RECURSIVE main_loop(_, _, _, _)
\* mutant: the first configuration that fails to load ends the loop
main_loop_stop_at_load_failure(st, config_names, a, config_dir) ==
    IF config_names = <<>>
    THEN st
    ELSE IF load_config(Head(config_names), config_dir).err # "none"
    THEN main_pass(st, Head(config_names), a, config_dir)
    ELSE CHOOSE r \in
           {main_loop(s, Tail(config_names), a, config_dir)
            : s \in {main_pass(st, Head(config_names), a, config_dir)}} : TRUE

main_loop(st, config_names, a, config_dir) ==
    IF config_names = <<>>
    THEN st
    ELSE CHOOSE r \in
           {main_loop(s, Tail(config_names), a, config_dir)
            : s \in {main_pass(st, Head(config_names), a, config_dir)}} : TRUE

\* main of analyze_nvidia_cluster.py: a the parsed arguments, glob the
\* order in which the directory lists its nvidia_*.json files
main(a, config_dir, glob) ==
    IF a.list
    THEN [main_start EXCEPT !.stdout = <<"list">>]
    ELSE IF /\ a.fiber_fraction.some
            /\ ~(Le(Zero, a.fiber_fraction.val)
                  /\ Le(a.fiber_fraction.val, One))
    THEN [main_start EXCEPT !.exit = 1, !.stderr = <<ERROR_FIBER_FRACTION>>]
    ELSE CHOOSE r \in
           {IF a.json /\ st.all_results # <<>> /\ ~st.crashed
            THEN [st EXCEPT !.stdout = Append(@, "json")]
            ELSE st
            : st \in {main_loop(main_start,
                                IF a.all THEN glob ELSE <<a.config>>,
                                a, config_dir)}} : TRUE

\* ------------------------------------------------------------------------
\* Inputs
\* ------------------------------------------------------------------------
DistStep == 25

Fracs == {Dec(k, FracDen) : k \in 0..FracDen} \cup {Dec(7, 10)}

SolidIndices == {N_FUSED_SILICA, Dec(12, 10), FromInt(2)}

SolidEps == {Mul(n, n) : n \in SolidIndices}

\* a tiny positive permittivity, 2^-40
TinyEps == [m |-> 2^(MantBits - 1), e |-> -39 - MantBits]

\* permittivities handed to maxwell_garnett, valid and invalid
EpsInputs == SolidEps \cup {EPS_VACUUM, TinyEps, Zero, Neg(One), Neg(Two)}

CoarseFracs == {Dec(k, CoarseDen) : k \in 0..CoarseDen}

\* permittivity pairs handed to bruggeman, valid and invalid
BrugPairs ==
    {<<EPS_VACUUM, EPS_SILICA>>, <<EPS_SILICA, EPS_VACUUM>>,
     <<FromInt(3), FromInt(3)>>, <<EPS_SILICA, EPS_SILICA>>,
     <<TinyEps, EPS_VACUUM>>, <<Zero, Zero>>, <<Zero, EPS_SILICA>>,
     <<Neg(One), Two>>, <<EPS_VACUUM, Neg(Two)>>}

Tols == {BRUGGEMAN_TOL, TenToMinus(3)}

\* <<f1, <<eps1, eps2>>, tol, max_iter>>: every small max_iter with both
\* tolerances, and the defaults (tol = 1e-10, max_iter = 100)
BrugCalls ==
    (Fracs \X BrugPairs \X Tols \X (0..MaxIterSmall))
    \cup (CoarseFracs \X BrugPairs \X {BRUGGEMAN_TOL} \X {BRUGGEMAN_MAX_ITER})

\* nominal solid fractions handed to sensitivity_analysis
SensitivityFracs == {Dec(k, 10) : k \in {1, 3, 5, 7, 9}}

\* <<delta_f, delta_n>>: the defaults (0.01, 0.005) and a coarser pair
SensitivityDeltas == {<<Dec(1, 100), Dec(5, 1000)>>, <<Dec(5, 100), Dec(1, 100)>>}

LinearIndices == SolidIndices \cup {N_VACUUM, Zero, Neg(One)}

Pcts == {FromInt(k * PctStep) : k \in 0..(100 \div PctStep)}
        \cup {FromInt(81), FromInt(100)}

Distances ==
    {FromInt(k * DistStep) : k \in 0..MaxDistSteps}
    \cup {Dec(15, 10), FromInt(100)}

MediaKeys == DOMAIN MEDIA_INDICES \cup {"copper"}

ScenarioKeys == DOMAIN OVERHEAD_SCENARIOS \cup {"mesh"}

\* cluster configurations: every key may be absent from the JSON.  The
\* sparse ones vary the keys the projection reads, the full ones set all
SparseClusterConfigs ==
    [total_gpus                 : {None},
     typical_cluster_distance_m : {None, Some(Zero), Some(FromInt(200))},
     external_fabric_distance_m : {None},
     syncs_per_second           : {None, Some(Zero), Some(FromInt(1000))},
     fiber_fraction             : {None, Some(Zero), Some(Dec(15, 10))},
     gradient_sync_hops         : {None},
     fp8_tflops                 : {None}]

FullClusterConfigs ==
    [total_gpus                 : {Some(FromInt(4608))},
     typical_cluster_distance_m : {None, Some(FromInt(200))},
     external_fabric_distance_m : {Some(FromInt(50))},
     syncs_per_second           : {Some(FromInt(1000))},
     fiber_fraction             : {None, Some(Dec(70, 100))},
     gradient_sync_hops         : {Some(FromInt(8))},
     fp8_tflops                 : {Some(FromInt(9000))}]

ClusterConfigs == SparseClusterConfigs \cup FullClusterConfigs

FiberFractionOverrides ==
    {None, Some(Zero), Some(Dec(5, 10)), Some(One), Some(Dec(15, 10)),
     Some(Neg(Dec(5, 10)))}

SyncsOverrides == {None, Some(Zero), Some(FromInt(2000))}

GpuHourCosts == {DEFAULT_GPU_HOUR_COST_USD, Dec(35, 10)}

\* files of the configs directory
GoodConfig ==
    [total_gpus                 |-> Some(FromInt(4608)),
     typical_cluster_distance_m |-> Some(FromInt(200)),
     external_fabric_distance_m |-> None,
     syncs_per_second           |-> Some(FromInt(1000)),
     fiber_fraction             |-> Some(Dec(70, 100)),
     gradient_sync_hops         |-> Some(FromInt(8)),
     fp8_tflops                 |-> Some(FromInt(9000))]

File(name, kind, config) == [name |-> name, kind |-> kind, config |-> config]

ConfigDirs ==
    {{},
     {File(<<"nvidia_", "h100">>, "object", GoodConfig),
      File(<<"nvidia_", "b200">>, "object",
           [GoodConfig EXCEPT !.fiber_fraction = Some(Dec(15, 10))]),
      File(<<"custom">>, "object",
           [GoodConfig EXCEPT !.fiber_fraction = None])},
     {File(<<"nvidia_", "h100">>, "object", GoodConfig),
      File(<<"nvidia_", "bad">>, "bad_json", GoodConfig)},
     {File(<<"nvidia_", "arr">>, "array", GoodConfig),
      File(<<"nvidia_", "h100">>, "object", GoodConfig)}}

ConfigNames ==
    {<<"nvidia_", "gb200_nvl72">>, <<"nvidia_", "h100">>, <<"h100">>,
     <<"custom">>, <<"bad">>, <<"arr">>}

MainArgs ==
    [config                  : ConfigNames,
     all                     : BOOLEAN,
     sensitivity             : BOOLEAN,
     fiber_fraction          : {None, Some(Dec(5, 10)), Some(Dec(15, 10))},
     syncs_per_sec           : {None, Some(Zero)},
     include_system_overhead : {FALSE},
     gpu_cost                : {DEFAULT_GPU_HOUR_COST_USD},
     json                    : BOOLEAN,
     list                    : BOOLEAN]

\* wavelengths in micrometres, inside and outside 0.21 .. 3.71
Wavelengths ==
    {Dec(k, 100) : k \in {10, 20, 21, 25, 30, 45, 55, 85, 131, 155, 200,
                          350, 371, 400, 500}}

BRUGGEMAN_WARNING == "Warning: Bruggeman did not converge"

\* ------------------------------------------------------------------------
\* State: one call at a time; the caller invokes an operation (pc "idle" ->
\* "done") and then takes its result (pc "done" -> "idle")
\* ------------------------------------------------------------------------
\* tables holds the module-level dicts of the process and caller_config the
\* config dict of the caller of analyze_cluster as the call leaves it; the
\* operators above read the tables through their definitions
VARIABLES pc, op, args, ret, stderr, tables, caller_config

vars == <<pc, op, args, ret, stderr, tables, caller_config>>

\* the module tables as the import of the modules leaves them
ModuleTables ==
    [MEDIA_INDICES      |-> MEDIA_INDICES,
     MEDIA_NAMES        |-> MEDIA_NAMES,
     SYSTEM_OVERHEAD_NS |-> SYSTEM_OVERHEAD_NS,
     OVERHEAD_SCENARIOS |-> OVERHEAD_SCENARIOS,
     SYSTEM_OVERHEAD    |-> SYSTEM_OVERHEAD,
     OPTICAL_MEDIA      |-> OPTICAL_MEDIA]

NoArgs == [none |-> TRUE]

NoRet == [none |-> TRUE]

Init ==
    /\ pc = "idle"
    /\ op = "none"
    /\ args = NoArgs
    /\ ret = NoRet
    /\ stderr = <<>>
    /\ tables = ModuleTables
    /\ caller_config = NoArgs

Call_maxwell_garnett ==
    \E f \in Fracs, eps_inclusion \in EpsInputs, eps_host \in EpsInputs :
        /\ pc = "idle"
        /\ pc' = "done"
        /\ op' = "maxwell_garnett"
        /\ args' = [f_inclusion |-> f, eps_inclusion |-> eps_inclusion,
                    eps_host |-> eps_host]
        /\ ret' = maxwell_garnett(f, eps_inclusion, eps_host)
        /\ tables' = tables
        /\ caller_config' = NoArgs
        /\ stderr' = <<>>

Call_bruggeman ==
    \E c \in BrugCalls :
        /\ pc = "idle"
        /\ pc' = "done"
        /\ op' = "bruggeman"
        /\ args' = [f1 |-> c[1], eps1 |-> c[2][1], eps2 |-> c[2][2],
                    tol |-> c[3], max_iter |-> c[4]]
        /\ ret' = bruggeman(c[1], c[2][1], c[2][2], c[3], c[4])
        /\ tables' = tables
        /\ caller_config' = NoArgs
        /\ stderr' = IF ret'.warned THEN <<BRUGGEMAN_WARNING>> ELSE <<>>

Call_linear_average ==
    \E f1 \in Fracs, n1 \in LinearIndices, n2 \in LinearIndices :
        /\ pc = "idle"
        /\ pc' = "done"
        /\ op' = "linear_average"
        /\ args' = [f1 |-> f1, n1 |-> n1, n2 |-> n2]
        /\ ret' = [err |-> "none", val |-> linear_average(f1, n1, n2)]
        /\ tables' = tables
        /\ caller_config' = NoArgs
        /\ stderr' = <<>>

Call_fig_bruggeman ==
    \E f_void \in CoarseFracs, n_solid \in SolidIndices, tol \in Tols :
        /\ pc = "idle"
        /\ pc' = "done"
        /\ op' = "fig_bruggeman"
        /\ args' = [f_void |-> f_void, n_solid |-> n_solid, tol |-> tol]
        /\ ret' = fig_bruggeman(f_void, n_solid, tol)
        /\ tables' = tables
        /\ caller_config' = NoArgs
        /\ stderr' = IF ret'.warned THEN <<BRUGGEMAN_WARNING>> ELSE <<>>

Call_calculate_refractive_index ==
    \E solid_fraction_pct \in Pcts :
        /\ pc = "idle"
        /\ pc' = "done"
        /\ op' = "calculate_refractive_index"
        /\ args' = [solid_fraction_pct |-> solid_fraction_pct]
        /\ ret' = calculate_refractive_index(solid_fraction_pct)
        /\ tables' = tables
        /\ caller_config' = NoArgs
        /\ stderr' = IF ret'.warned THEN <<BRUGGEMAN_WARNING>> ELSE <<>>

Call_calculate_tof_ns ==
    \E distance_m \in Distances, n \in SolidIndices \cup {N_VACUUM, N_SMF28_CORE} :
        /\ pc = "idle"
        /\ pc' = "done"
        /\ op' = "calculate_tof_ns"
        /\ args' = [distance_m |-> distance_m, n |-> n]
        /\ ret' = [err |-> "none", val |-> calculate_tof_ns(distance_m, n)]
        /\ tables' = tables
        /\ caller_config' = NoArgs
        /\ stderr' = <<>>

Call_analyze_calculate_tof_ns ==
    \E distance_m \in Distances, n \in SolidIndices \cup {N_VACUUM, N_SMF28_CORE} :
        /\ pc = "idle"
        /\ pc' = "done"
        /\ op' = "analyze_calculate_tof_ns"
        /\ args' = [distance_m |-> distance_m, n |-> n]
        /\ ret' = [err |-> "none",
                   val |-> analyze_calculate_tof_ns(distance_m, n)]
        /\ tables' = tables
        /\ caller_config' = NoArgs
        /\ stderr' = <<>>

Call_calculate_link_latency ==
    \E distance_m \in Distances, media_type \in MediaKeys,
       scenario \in ScenarioKeys, round_trip \in BOOLEAN :
        /\ pc = "idle"
        /\ pc' = "done"
        /\ op' = "calculate_link_latency"
        /\ args' = [distance_m |-> distance_m, media_type |-> media_type,
                    scenario |-> scenario, round_trip |-> round_trip]
        /\ ret' = calculate_link_latency(distance_m, media_type, scenario,
                                         round_trip)
        /\ tables' = tables
        /\ caller_config' = NoArgs
        /\ stderr' = <<>>

Call_analyze_cluster ==
    \E config \in ClusterConfigs, include_system_overhead \in BOOLEAN,
       override_fiber_fraction \in FiberFractionOverrides,
       override_syncs_per_sec \in SyncsOverrides,
       gpu_hour_cost \in GpuHourCosts :
        /\ pc = "idle"
        /\ pc' = "done"
        /\ op' = "analyze_cluster"
        /\ args' = [config |-> config,
                    include_system_overhead |-> include_system_overhead,
                    override_fiber_fraction |-> override_fiber_fraction,
                    override_syncs_per_sec |-> override_syncs_per_sec,
                    gpu_hour_cost |-> gpu_hour_cost]
        /\ ret' = analyze_cluster(config, include_system_overhead,
                                  override_fiber_fraction,
                                  override_syncs_per_sec, gpu_hour_cost)
        /\ tables' = tables
        /\ caller_config' = config
        /\ stderr' = <<>>

Call_main ==
    \E a \in MainArgs, config_dir \in ConfigDirs :
      \E glob \in GlobNvidia(config_dir) :
        /\ pc = "idle"
        /\ pc' = "done"
        /\ op' = "main"
        /\ args' = [argv |-> a, config_dir |-> config_dir, glob |-> glob]
        /\ ret' = main(a, config_dir, glob)
        /\ tables' = tables
        /\ caller_config' = NoArgs
        /\ stderr' = ret'.stderr

Call_sellmeier_silica ==
    \E wavelength_um \in Wavelengths :
        /\ pc = "idle"
        /\ pc' = "done"
        /\ op' = "sellmeier_silica"
        /\ args' = [wavelength_um |-> wavelength_um]
        /\ ret' = sellmeier_silica(wavelength_um)
        /\ tables' = tables
        /\ caller_config' = NoArgs
        /\ stderr' = <<>>

Call_sensitivity_analysis ==
    \E solid_fraction \in SensitivityFracs, n_solid \in SolidIndices,
       d \in SensitivityDeltas :
        /\ pc = "idle"
        /\ pc' = "done"
        /\ op' = "sensitivity_analysis"
        /\ args' = [solid_fraction |-> solid_fraction, n_solid |-> n_solid,
                    delta_f |-> d[1], delta_n |-> d[2]]
        /\ ret' = sensitivity_analysis(solid_fraction, n_solid, d[1], d[2])
        /\ tables' = tables
        /\ caller_config' = NoArgs
        /\ stderr' = <<>>

Call_fig_maxwell_garnett ==
    \E f_void \in Fracs, n_solid \in SolidIndices :
        /\ pc = "idle"
        /\ pc' = "done"
        /\ op' = "fig_maxwell_garnett"
        /\ args' = [f_void |-> f_void, n_solid |-> n_solid]
        /\ ret' = [val |-> fig_maxwell_garnett(f_void, n_solid)]
        /\ tables' = tables
        /\ caller_config' = NoArgs
        /\ stderr' = <<>>

Call_compare_media ==
    /\ pc = "idle"
    /\ \E distance_m \in Distances, scenario \in ScenarioKeys,
          round_trip \in BOOLEAN :
      \E r \in {compare_media(tables, distance_m, scenario, round_trip)} :
        /\ pc' = "done"
        /\ op' = "compare_media"
        /\ args' = [distance_m |-> distance_m, scenario |-> scenario,
                    round_trip |-> round_trip]
        /\ ret' = [err |-> r.err, results |-> r.results]
        /\ tables' = r.tables
        /\ caller_config' = NoArgs
        /\ stderr' = <<>>

Call_calculate_latency_ns ==
    /\ pc = "idle"
    /\ \E distance_m \in Distances, key \in DOMAIN tables.OPTICAL_MEDIA :
        /\ pc' = "done"
        /\ op' = "calculate_latency_ns"
        /\ args' = [distance_m |-> distance_m, key |-> key]
        /\ ret' = [val |-> calculate_latency_ns(distance_m,
                                                tables.OPTICAL_MEDIA[key])]
        /\ tables' = tables
        /\ caller_config' = NoArgs
        /\ stderr' = <<>>

Call_calculate_system_overhead_ns ==
    \E scenario \in ScenarioKeys :
        /\ pc = "idle"
        /\ pc' = "done"
        /\ op' = "calculate_system_overhead_ns"
        /\ args' = [scenario |-> scenario]
        /\ ret' = calculate_system_overhead_ns(scenario)
        /\ tables' = tables
        /\ caller_config' = NoArgs
        /\ stderr' = <<>>

\* the caller takes the result
Return ==
    /\ pc = "done"
    /\ pc' = "idle"
    /\ op' = "none"
    /\ args' = NoArgs
    /\ ret' = NoRet
    /\ tables' = tables
    /\ caller_config' = NoArgs
    /\ stderr' = <<>>

Next ==
    \/ Call_maxwell_garnett
    \/ Call_bruggeman
    \/ Call_linear_average
    \/ Call_fig_bruggeman
    \/ Call_calculate_refractive_index
    \/ Call_calculate_tof_ns
    \/ Call_analyze_calculate_tof_ns
    \/ Call_calculate_link_latency
    \/ Call_analyze_cluster
    \/ Call_main
    \/ Call_sellmeier_silica
    \/ Call_calculate_system_overhead_ns
    \/ Call_sensitivity_analysis
    \/ Call_fig_maxwell_garnett
    \/ Call_compare_media
    \/ Call_calculate_latency_ns
    \/ Return

Spec == Init /\ [][Next]_vars

TypeOK == pc \in {"idle", "done"}

\* ------------------------------------------------------------------------
\* Properties
\* ------------------------------------------------------------------------
Done(o) == pc = "done" /\ op = o

\* the solid index whose square is the permittivity eps
IndexOf(eps) == CHOOSE n \in SolidIndices : Mul(n, n) = eps

\* maxwell_garnett was called for voids (inclusion) in a solid host
MG_VoidInSolid ==
    /\ Done("maxwell_garnett")
    /\ args.eps_inclusion = EPS_VACUUM
    /\ args.eps_host \in SolidEps

\* bruggeman was called with phase 1 void and phase 2 solid
BR_VoidInSolid ==
    /\ Done("bruggeman")
    /\ args.eps1 = EPS_VACUUM
    /\ args.eps2 \in SolidEps

\* linear_average was called with phase 1 void and phase 2 solid
LIN_VoidInSolid ==
    /\ Done("linear_average")
    /\ args.n1 = N_VACUUM
    /\ args.n2 \in SolidIndices

\* C1: at void fraction 0 every solver yields the solid index, and at void
\* fraction 1 every solver yields index 1.0 (void permittivity 1.0, solid
\* index > 1).
C1_BoundaryValues ==
    /\ MG_VoidInSolid /\ args.f_inclusion = Zero
          => ret.err = "none" /\ Sqrt(ret.val) = IndexOf(args.eps_host)
    /\ MG_VoidInSolid /\ args.f_inclusion = One
          => ret.err = "none" /\ Sqrt(ret.val) = One
    /\ BR_VoidInSolid /\ args.f1 = Zero
          => ret.err = "none" /\ Sqrt(ret.val) = IndexOf(args.eps2)
    /\ BR_VoidInSolid /\ args.f1 = One
          => ret.err = "none" /\ Sqrt(ret.val) = One
    /\ LIN_VoidInSolid /\ args.f1 = Zero => ret.val = args.n2
    /\ LIN_VoidInSolid /\ args.f1 = One => ret.val = One

\* C2: for void permittivity 1.0, solid permittivity > 1.0 and any void
\* fraction in [0,1], each solver's effective index is >= 1 (the effective
\* permittivity is never below 1.0).
C2_IndexAtLeastOne ==
    /\ MG_VoidInSolid
          => ret.err = "none" /\ Le(One, ret.val) /\ Le(One, Sqrt(ret.val))
    /\ BR_VoidInSolid
          => ret.err = "none" /\ Le(One, ret.val) /\ Le(One, Sqrt(ret.val))
    /\ LIN_VoidInSolid => Le(One, ret.val)

\* C3: maxwell_garnett(0.70, 1.0, 1.45^2) yields an effective index between
\* 1.11 and 1.16.
C3_Scenario70 ==
    (/\ Done("maxwell_garnett")
     /\ args.f_inclusion = Dec(70, 100)
     /\ args.eps_inclusion = EPS_VACUUM
     /\ args.eps_host = EPS_SILICA)
    => /\ ret.err = "none"
       /\ Le(Dec(111, 100), Sqrt(ret.val))
       /\ Le(Sqrt(ret.val), Dec(116, 100))

\* C4: for f1 in [0,1] and positive eps1, eps2, whatever tol and max_iter,
\* the value bruggeman returns lies in [min(eps1,eps2), max(eps1,eps2)] on
\* every return path.
C4_BruggemanInRange ==
    (/\ Done("bruggeman")
     /\ Lt(Zero, args.eps1)
     /\ Lt(Zero, args.eps2)
     /\ ret.err = "none")
    => /\ Le(Min(args.eps1, args.eps2), ret.val)
       /\ Le(ret.val, Max(args.eps1, args.eps2))

\* the residual bruggeman evaluates at the estimate eps_eff
BR_Residual(eps_eff) ==
    Add(bruggeman_term(args.f1, args.eps1, eps_eff),
        bruggeman_term(Sub(One, args.f1), args.eps2, eps_eff))

\* the estimate bruggeman holds after max_iter unconverged passes
BR_LastEstimate ==
    IF args.max_iter = 0
    THEN Add(Mul(args.f1, args.eps1), Mul(Sub(One, args.f1), args.eps2))
    ELSE LET prev == bruggeman(args.f1, args.eps1, args.eps2, args.tol,
                               args.max_iter - 1)
         IN bruggeman_update(args.f1, Sub(One, args.f1), args.eps1,
                             args.eps2, prev.val, BR_Residual(prev.val))

\* a converged call of bruggeman that returns the float v
BR_ConvergedCallReturning(v) ==
    LET c == bruggeman(Zero, v, v, BRUGGEMAN_TOL, BRUGGEMAN_MAX_ITER)
    IN c.path = "converged" /\ c.val = v

MG_CallDenominator ==
    Sub(Add(args.eps_host, Mul(Two, args.eps_inclusion)),
        Mul(args.f_inclusion, Sub(args.eps_inclusion, args.eps_host)))

\* the Maxwell-Garnett numerator eps_host + 2*eps_inclusion
\* + 2*f_inclusion*(eps_inclusion - eps_host) of the call in args
MG_CallNumerator ==
    Add(Add(args.eps_host, Mul(Two, args.eps_inclusion)),
        Mul(Mul(Two, args.f_inclusion),
            Sub(args.eps_inclusion, args.eps_host)))

\* C6 (as stated): every solver rejects a zero or negative permittivity with
\* an error instead of returning a value.
C6_RejectsNonPositive ==
    /\ (Done("maxwell_garnett")
        /\ (Le(args.eps_inclusion, Zero) \/ Le(args.eps_host, Zero)))
          => ret.err # "none"
    /\ (Done("bruggeman") /\ (Le(args.eps1, Zero) \/ Le(args.eps2, Zero)))
          => ret.err # "none"
    /\ (Done("linear_average") /\ (args.n1 = Zero \/ args.n2 = Zero))
          => ret.err # "none"

\* C6 (amended): no solver checks the sign of its permittivities.  Given a
\* zero or negative permittivity, maxwell_garnett still returns a value
\* unless |denominator| < 1e-10, bruggeman returns a value unless a divisor
\* eps + 2*eps_eff is exactly zero (ZeroDivisionError), and linear_average
\* always returns a value.
C6_NoSignValidation ==
    /\ (Done("maxwell_garnett")
        /\ (Le(args.eps_inclusion, Zero) \/ Le(args.eps_host, Zero)))
          => /\ ret.err \in {"none", "ValueError"}
             /\ ret.err = "ValueError"
                   <=> Lt(Abs(MG_CallDenominator), TenToMinus(10))
    /\ (Done("bruggeman") /\ (Le(args.eps1, Zero) \/ Le(args.eps2, Zero)))
          => \/ ret.err = "none"
             \/ /\ ret.err = "ZeroDivisionError"
                /\ bruggeman_divzero(args.eps1, args.eps2, ret.val)
    /\ Done("linear_average") => ret.err = "none"

C6_Witness ==
    /\ Done("maxwell_garnett")
    /\ args.eps_inclusion = Zero
    /\ Lt(Zero, args.eps_host)
    /\ ret.err = "none"

\* C7: maxwell_garnett raises exactly when |denominator| < 1e-10, and
\* otherwise returns eps_host * numerator / denominator.
C7_DenominatorGuard ==
    Done("maxwell_garnett")
    => /\ ret.err = "ValueError"
             <=> Lt(Abs(MG_CallDenominator), TenToMinus(10))
       /\ ret.err # "ValueError"
             => /\ ret.err = "none"
                /\ ret.val = Div(Mul(args.eps_host, MG_CallNumerator),
                                 MG_CallDenominator)

C7_Witness ==
    /\ Done("maxwell_garnett")
    /\ ret.err = "ValueError"
    /\ MG_CallDenominator.m # 0

C9_MGBruggemanAgree ==
    (/\ Done("calculate_refractive_index")
     /\ ret.exit = 0
     /\ Lt(ret.void_fraction, Dec(20, 100)))
    => Lt(Abs(Sub(ret.n_eff_br, ret.n_eff_mg)),
          Mul(Dec(2, 100), ret.n_eff_mg))

C9_Witness ==
    /\ Done("calculate_refractive_index")
    /\ ret.exit = 0
    /\ Lt(Dec(18, 100), ret.void_fraction)
    /\ Lt(ret.void_fraction, Dec(20, 100))
    /\ Lt(ret.n_eff_mg, ret.n_eff_br)

\* C10: the round-trip time of flight is exactly twice the one-way time of
\* flight, in calculate_link_latency and between the cluster analyser's
\* calculate_tof_ns and the latency calculator's.
C10_RoundTripTwice ==
    /\ (Done("calculate_link_latency") /\ ret.err = "none" /\ args.round_trip)
          => ret.tof_ns
             = Mul(Two, calculate_link_latency(args.distance_m,
                            args.media_type, args.scenario, FALSE).tof_ns)
    /\ Done("analyze_calculate_tof_ns")
          => ret.val = Mul(Two, calculate_tof_ns(args.distance_m, args.n))

C10_Witness ==
    /\ Done("calculate_link_latency")
    /\ ret.err = "none"
    /\ args.round_trip
    /\ Lt(Zero, ret.tof_ns)

\* x is 97.9 to within 0.1
C11_Near97(x) == Lt(Dec(978, 10), x) /\ Lt(x, Dec(980, 10))

\* x is 979.5 to within 0.5
C11_Near979(x) == Lt(FromInt(979), x) /\ Lt(x, FromInt(980))

\* C11 as stated: for 100 m of smf28 (index 1.4682) the round-trip time of
\* flight 2*100*1.4682/299792458*1e9 is about 97.9 ns (within 0.1 ns), from
\* the cluster analyser's calculate_tof_ns and from calculate_link_latency.
C11_TofSmf28_100m ==
    /\ (/\ Done("analyze_calculate_tof_ns")
        /\ args.distance_m = FromInt(100)
        /\ args.n = N_SMF28_CORE)
          => C11_Near97(ret.val)
    /\ (/\ Done("calculate_link_latency")
        /\ args.distance_m = FromInt(100)
        /\ args.media_type = "smf28"
        /\ args.round_trip
        /\ ret.err = "none")
          => C11_Near97(ret.tof_ns)

\* C11 amended: that round-trip time of flight is about 979.5 ns (within
\* 0.5 ns), ten times the stated figure, from both functions.
C11_TofSmf28_100m_979 ==
    /\ (/\ Done("analyze_calculate_tof_ns")
        /\ args.distance_m = FromInt(100)
        /\ args.n = N_SMF28_CORE)
          => C11_Near979(ret.val)
    /\ (/\ Done("calculate_link_latency")
        /\ args.distance_m = FromInt(100)
        /\ args.media_type = "smf28"
        /\ args.round_trip
        /\ ret.err = "none")
          => C11_Near979(ret.tof_ns)

C11_Witness ==
    /\ Done("analyze_calculate_tof_ns")
    /\ args.distance_m = FromInt(100)
    /\ args.n = N_SMF28_CORE
    /\ C11_Near979(ret.val)

\* the synchronization event rate the caller of analyze_cluster asked for:
\* the override when one is given, else the configuration's (default 1000)
C12_RequestedRate ==
    IF args.override_syncs_per_sec.some
    THEN args.override_syncs_per_sec.val
    ELSE Get(args.config.syncs_per_second, FromInt(1000))

\* C12: whenever the event rate requested of analyze_cluster is 0, by the
\* configuration or by override_syncs_per_sec, the effective event rate
\* and the daily and annual savings (GPU-hours and USD) are all 0.
C12_ZeroRateZeroSavings ==
    (/\ Done("analyze_cluster")
     /\ C12_RequestedRate = Zero
     /\ Le(Zero, ret.fiber_fraction)
     /\ Le(ret.fiber_fraction, One))
    => /\ ret.projection.effective_fiber_syncs_per_second = Zero
       /\ ret.projection.daily_savings_gpu_hours = Zero
       /\ ret.projection.annual_savings_gpu_hours = Zero
       /\ ret.projection.annual_savings_usd = Zero

\* C13: whenever the fiber fraction in effect is 0 (the override, which
\* takes precedence when given, else the configuration's), the annual
\* savings in GPU-hours and USD are 0, whatever the other parameters.
C13_ZeroFiberFractionZeroSavings ==
    Done("analyze_cluster")
    => /\ args.override_fiber_fraction.some
            => ret.fiber_fraction = args.override_fiber_fraction.val
       /\ ~args.override_fiber_fraction.some
            => ret.fiber_fraction
               = Get(args.config.fiber_fraction, Dec(70, 100))
       /\ ret.fiber_fraction = Zero
            => /\ ret.projection.annual_savings_gpu_hours = Zero
               /\ ret.projection.annual_savings_usd = Zero

C13_Witness ==
    /\ Done("analyze_cluster")
    /\ args.override_fiber_fraction = Some(Zero)
    /\ args.config.fiber_fraction = Some(Dec(15, 10))
    /\ Lt(Zero, ret.syncs_per_second)
    /\ Lt(Zero, ret.savings_per_hop_ns)
    /\ ret.projection.annual_savings_usd = Zero

\* the annual savings in USD by the documented formula, from the results
\* and inputs of the call: (baseline_tof - improved_tof) * hops * event_rate
\* * fiber_fraction * 86400 * 365 * fleet_size * cost / (3600 * 1e9)
C14_Formula ==
    Div(Mul(Mul(Mul(Mul(Mul(Mul(Mul(Sub(ret.tof_smf_ns, ret.tof_super_ns),
                                    ret.hops_per_sync),
                                ret.syncs_per_second),
                            ret.fiber_fraction),
                        FromInt(86400)),
                    FromInt(365)),
                ret.total_gpus),
            ret.gpu_hour_cost),
        Mul(FromInt(3600), NS_PER_S))

\* the relative rounding error allowed between two orders of evaluation of
\* that product: 2^-(MantBits - 4), sixteen units in the last place
C14_Tolerance == [m |-> 2 ^ (MantBits - 1), e |-> 5 - 2 * MantBits]

\* C14: the annual savings analyze_cluster returns equal the documented
\* formula (up to the rounding of the order of evaluation), so they are
\* proportional to the per-hop difference of the times of flight, strictly
\* positive when every scale parameter is positive, and 0 when that
\* difference is 0.
C14_SavingsFormula ==
    Done("analyze_cluster")
    => /\ Le(Abs(Sub(ret.projection.annual_savings_usd, C14_Formula)),
             Mul(Abs(C14_Formula), C14_Tolerance))
       /\ (/\ Lt(Zero, ret.total_gpus)
           /\ Lt(Zero, ret.hops_per_sync)
           /\ Lt(Zero, ret.syncs_per_second)
           /\ Lt(Zero, ret.fiber_fraction)
           /\ Lt(Zero, ret.gpu_hour_cost)
           /\ Lt(Zero, ret.cluster_distance_m))
             => /\ Lt(Zero, ret.savings_per_hop_ns)
                /\ Lt(Zero, ret.projection.annual_savings_gpu_hours)
                /\ Lt(Zero, ret.projection.annual_savings_usd)
       /\ ret.savings_per_hop_ns = Zero
             => /\ ret.projection.annual_savings_gpu_hours = Zero
                /\ ret.projection.annual_savings_usd = Zero

C14_Witness ==
    /\ Done("analyze_cluster")
    /\ ret.total_gpus = FromInt(4608)
    /\ ret.hops_per_sync = FromInt(8)
    /\ ret.syncs_per_second = FromInt(1000)
    /\ ret.fiber_fraction = Dec(70, 100)
    /\ Lt(Zero, ret.projection.annual_savings_usd)
    /\ Lt(ret.fiber_fraction, One)

\* the keys the latency calculator documents
C15_KnownMedia ==
    {"vacuum", "hollow_core", "superluminal", "smf28", "multimode"}

C15_KnownScenarios == {"none", "minimal", "typical", "spine_leaf", "fat_tree"}

\* C15: calculate_link_latency fails with ValueError and returns no result
\* exactly when the medium key or the scenario key is unknown; no unknown
\* key is defaulted, and every known pair gives a result without error.
C15_UnknownKeysRejected ==
    Done("calculate_link_latency")
    => IF /\ args.media_type \in C15_KnownMedia
          /\ args.scenario \in C15_KnownScenarios
       THEN /\ ret.err = "none"
            /\ ret.refractive_index = MEDIA_INDICES[args.media_type]
            /\ ret.total_ns = Add(ret.tof_ns, FromInt(ret.overhead_ns))
       ELSE /\ ret.err = "ValueError"
            /\ ret = link_latency_error

C15_Witness ==
    /\ Done("calculate_link_latency")
    /\ args.media_type \in C15_KnownMedia
    /\ args.scenario \notin C15_KnownScenarios
    /\ ret.err = "ValueError"

\* x lies in [0, 1]
C16_InUnitInterval(x) == Le(Zero, x) /\ Le(x, One)

\* C16: a projection is never computed with a fiber fraction outside
\* [0, 1], whether the value comes from the command line, from the
\* override_fiber_fraction argument of analyze_cluster or from the
\* configuration's fiber_fraction field.
C16_FiberFractionValidated ==
    /\ Done("analyze_cluster") => C16_InUnitInterval(ret.fiber_fraction)
    /\ Done("main")
         => \A i \in DOMAIN ret.all_results :
                C16_InUnitInterval(ret.all_results[i].fiber_fraction)

\* the command line names one configuration and no file of the directory
\* has that name, with or without the nvidia_ prefix
C17_ConfigMissing ==
    /\ Done("main")
    /\ ~args.argv.list
    /\ ~args.argv.all
    /\ args.argv.fiber_fraction.some
         => C16_InUnitInterval(args.argv.fiber_fraction.val)
    /\ ~FileExists(args.config_dir, args.argv.config)
    /\ ~FileExists(args.config_dir, <<"nvidia_">> \o args.argv.config)

\* C17: run with a configuration name for which no file exists, the
\* command reports the error and ends with a non-zero exit status, without
\* an uncaught exception.
C17_MissingConfigNonZeroExit ==
    C17_ConfigMissing
    => /\ ret.stderr # <<>>
       /\ ~ret.crashed
       /\ ret.exit # 0

\* the wavelength of the call lies in the validated range 0.21 .. 3.71
C18_InValidatedRange ==
    /\ Le(Dec(21, 100), args.wavelength_um)
    /\ Le(args.wavelength_um, Dec(371, 100))

\* C18: sellmeier_silica accepts wavelengths outside 0.21 .. 3.71
\* micrometres without an error, returning a numeric index flagged by a
\* warning; in-range wavelengths are returned unflagged.  The function
\* returns a bare number, so the warning stream is the only place for a flag.
C18_OutOfRangeFlagged ==
    Done("sellmeier_silica")
    => /\ ret.err = "none"
       /\ (stderr # <<>>) <=> ~C18_InValidatedRange

\* C19: degenerate compositions are valid inputs: a solid fraction of 0%
\* (pure void) and of 100% (pure solid) produce a result, not a rejection.
C19_DegenerateAccepted ==
    (/\ Done("calculate_refractive_index")
     /\ args.solid_fraction_pct \in {Zero, FromInt(100)})
    => ret.exit = 0

\* the loop of the call of bruggeman, after max_iter passes
C20_LoopState ==
    bruggeman_loop(args.f1, Sub(One, args.f1), args.eps1, args.eps2,
                   args.tol, args.max_iter,
                   bruggeman_start(Add(Mul(args.f1, args.eps1),
                                       Mul(Sub(One, args.f1), args.eps2))))

\* C20: bruggeman always terminates, with at most max_iter residual
\* evaluations and at most max_iter updates: it returns at the first
\* residual below tol (no call with fewer passes converges), and otherwise
\* after the max_iter-th update.  A call that raises (for volume fractions
\* in [0, 1], only on a permittivity that is not positive) ends within the
\* same bounds.
C20_BruggemanTerminates ==
    Done("bruggeman")
    => /\ ret.path \in {"converged", "exhausted", "raised"}
       /\ ret.evals <= args.max_iter
       /\ ret.iterations <= args.max_iter
       /\ ret.iterations = C20_LoopState.iteration
       /\ ret.path = "converged"
            => /\ ret.evals = ret.iterations + 1
               /\ Lt(Abs(BR_Residual(ret.val)), args.tol)
               /\ \A j \in 0..ret.iterations :
                      bruggeman(args.f1, args.eps1, args.eps2, args.tol,
                                j).path = "exhausted"
       /\ ret.path = "exhausted"
            => /\ ret.err = "none"
               /\ ret.evals = args.max_iter
               /\ ret.iterations = args.max_iter
               /\ C20_LoopState.evals = args.max_iter
               /\ ret.val = C20_LoopState.eps_eff
       /\ ret.path = "raised"
            => ~(Lt(Zero, args.eps1) /\ Lt(Zero, args.eps2))

C20_Witness ==
    /\ Done("bruggeman")
    /\ ret.path = "converged"
    /\ args.max_iter = BRUGGEMAN_MAX_ITER
    /\ ret.iterations > MaxIterSmall
    /\ Lt(Zero, args.eps1)
    /\ Lt(Zero, args.eps2)

\* C21: the per-hop baseline latency of analyze_cluster is the latency
\* model's: with system overhead it equals calculate_link_latency(distance,
\* 'smf28', 'typical', round_trip=True).total_ns, without it the total of
\* the 'none' scenario.
C21_PerHopLatencyIsLinkLatency ==
    Done("analyze_cluster")
    => ret.total_latency_per_hop_smf
       = calculate_link_latency(ret.cluster_distance_m, "smf28",
                                IF args.include_system_overhead
                                THEN "typical" ELSE "none",
                                TRUE).total_ns

\* the one-way overhead of each scenario, in ns
C22_OneWayOverhead ==
    [none |-> 0, minimal |-> 100, typical |-> 400, spine_leaf |-> 600,
     fat_tree |-> 800]

\* C22: the one-way overhead of a scenario is the sum of its SerDes, FEC and
\* switch components (0, 100, 400, 600, 800 ns), and calculate_link_latency
\* reports that sum one-way, exactly twice it for a round trip, and
\* total_ns = tof_ns + overhead_ns.
C22_OverheadSums ==
    /\ (Done("calculate_system_overhead_ns") /\ ret.err = "none")
          => /\ ret.total = C22_OneWayOverhead[args.scenario]
             /\ ret.total = ret.breakdown.serdes + ret.breakdown.fec
                             + ret.breakdown.switches
             /\ ret.breakdown.serdes \in {0, 50 + 50}
             /\ ret.breakdown.fec \in {0, 50 + 50}
             /\ ret.breakdown.switches
                = OVERHEAD_SCENARIOS[args.scenario].switches * 200
    /\ (Done("calculate_link_latency") /\ ret.err = "none")
          => /\ ret.overhead_ns
                = IF args.round_trip
                  THEN 2 * C22_OneWayOverhead[args.scenario]
                  ELSE C22_OneWayOverhead[args.scenario]
             /\ ret.total_ns = Add(ret.tof_ns, FromInt(ret.overhead_ns))

C22_Witness ==
    /\ Done("calculate_link_latency")
    /\ ret.err = "none"
    /\ args.round_trip
    /\ args.scenario = "spine_leaf"
    /\ ret.overhead_ns = 1200

\* C23: for every known medium and scenario and every distance >= 0,
\* tof_fraction = tof_ns / (tof_ns + overhead_ns) lies in [0, 1]; it is 1.0
\* whenever the scenario is 'none' (also at distance 0, where the total is
\* 0) and 0 at distance 0 with an overhead; analyze_cluster's tof_fraction
\* is the same expression.
C23_TofFraction ==
    /\ (Done("calculate_link_latency") /\ ret.err = "none")
          => /\ Le(Zero, ret.tof_fraction)
             /\ Le(ret.tof_fraction, One)
             /\ Lt(Zero, Add(ret.tof_ns, FromInt(ret.overhead_ns)))
                  => ret.tof_fraction
                     = Div(ret.tof_ns,
                           Add(ret.tof_ns, FromInt(ret.overhead_ns)))
             /\ args.scenario = "none" => ret.tof_fraction = One
             /\ (args.distance_m = Zero /\ args.scenario # "none")
                  => ret.tof_fraction = Zero
    /\ Done("analyze_cluster")
          => /\ Le(Zero, ret.tof_fraction)
             /\ Le(ret.tof_fraction, One)
             /\ ~args.include_system_overhead => ret.tof_fraction = One
             /\ Lt(Zero, Add(ret.tof_smf_ns, FromInt(ret.overhead_per_hop_ns)))
                  => ret.tof_fraction
                     = Div(ret.tof_smf_ns,
                           Add(ret.tof_smf_ns,
                               FromInt(ret.overhead_per_hop_ns)))

C23_Witness ==
    /\ Done("calculate_link_latency")
    /\ ret.err = "none"
    /\ args.distance_m = Zero
    /\ args.scenario = "none"
    /\ ret.tof_fraction = One

\* C24: sensitivity_analysis reports the propagated error of a 1% input
\* uncertainty as |derivative| * 0.01 * the nominal value of that input:
\* the nominal solid fraction for dn/df, the nominal solid index for
\* dn/dn_solid.
C24_PropagatedError ==
    (Done("sensitivity_analysis") /\ ret.err = "none")
    => /\ ret.delta_n_for_1pct_f_error
          = Abs(Mul(Mul(ret.dn_dsolid_fraction, args.solid_fraction),
                    Dec(1, 100)))
       /\ ret.delta_n_for_1pct_n_error
          = Abs(Mul(Mul(ret.dn_dn_solid, args.n_solid), Dec(1, 100)))

\* C26: whenever bruggeman reports non-convergence, the estimate it returns
\* does not satisfy |residual| < tol: an estimate that meets the tolerance
\* is never reported as non-converged.
C26_NonConvergedMissesTolerance ==
    ( /\ Done("bruggeman")
      /\ ret.path = "exhausted"
      /\ Lt(Zero, args.eps1)
      /\ Lt(Zero, args.eps2)
      /\ ~bruggeman_divzero(args.eps1, args.eps2, ret.val) )
    => ~Lt(Abs(BR_Residual(ret.val)), args.tol)

\* |a - b| < 0.001
C27_Near(a, b) == Lt(Abs(Sub(a, b)), TenToMinus(3))

\* C27: the two Maxwell-Garnett implementations agree: for every void
\* fraction f in [0, 1] and solid index n_solid, the square root of the
\* checker's maxwell_garnett(f, 1.0, n_solid^2) is the figures'
\* maxwell_garnett(f, n_solid).
C27_ImplementationsAgree ==
    Done("fig_maxwell_garnett")
    => LET checker == maxwell_garnett(args.f_void, One,
                                      Mul(args.n_solid, args.n_solid))
       IN /\ checker.err = "none"
          /\ C27_Near(Sqrt(checker.val), ret.val)

\* maxwell_garnett was called on a volume fraction in [0, 1] and two
\* positive permittivities
C28_ValidComposition ==
    /\ Done("maxwell_garnett")
    /\ Le(Zero, args.f_inclusion)
    /\ Le(args.f_inclusion, One)
    /\ Lt(Zero, args.eps_inclusion)
    /\ Lt(Zero, args.eps_host)

\* C28 (as stated): on every valid composition the denominator is strictly
\* positive, so maxwell_garnett never raises its near-zero-denominator
\* error.
C28_NeverRaisesOnValid ==
    C28_ValidComposition
    => /\ Lt(Zero, MG_denominator(args.f_inclusion, args.eps_inclusion,
                                  args.eps_host))
       /\ ret.err = "none"

\* C28 (amended): on every valid composition the denominator is strictly
\* positive, and maxwell_garnett raises exactly when it is below the
\* absolute bound 1e-10; that never happens when both permittivities are at
\* least 1.0, where the denominator is at least 3.
C28_RaisesOnlyBelowBound ==
    C28_ValidComposition
    => LET denominator == MG_denominator(args.f_inclusion,
                                         args.eps_inclusion, args.eps_host)
       IN /\ Lt(Zero, denominator)
          /\ ret.err = "ValueError" <=> Lt(denominator, MG_DEN_TOL)
          /\ (Le(One, args.eps_inclusion) /\ Le(One, args.eps_host))
               => /\ ret.err = "none"
                  /\ Le(FromInt(3), denominator)

C28_Witness ==
    /\ C28_ValidComposition
    /\ args.eps_inclusion = TinyEps
    /\ args.eps_host = TinyEps
    /\ ret.err = "ValueError"

\* the same call of analyze_cluster with include_system_overhead toggled
C29_Toggled ==
    analyze_cluster(args.config, ~args.include_system_overhead,
                    args.override_fiber_fraction, args.override_syncs_per_sec,
                    args.gpu_hour_cost)

\* C29: switching include_system_overhead, all other inputs equal, leaves
\* the savings fields unchanged; only overhead_per_hop_ns,
\* total_latency_per_hop_smf, tof_fraction and the latency-tax fields
\* change; and daily savings never exceed the daily latency tax.
C29_OverheadOnlyMovesTax ==
    Done("analyze_cluster")
    => /\ [ret EXCEPT !.include_system_overhead = TRUE,
                      !.overhead_per_hop_ns = 0,
                      !.total_latency_per_hop_smf = Zero,
                      !.tof_fraction = Zero,
                      !.projection.daily_latency_tax_gpu_hours = Zero,
                      !.projection.annual_latency_tax_gpu_hours = Zero]
          = [C29_Toggled EXCEPT !.include_system_overhead = TRUE,
                      !.overhead_per_hop_ns = 0,
                      !.total_latency_per_hop_smf = Zero,
                      !.tof_fraction = Zero,
                      !.projection.daily_latency_tax_gpu_hours = Zero,
                      !.projection.annual_latency_tax_gpu_hours = Zero]
       /\ Le(ret.projection.daily_savings_gpu_hours,
             ret.projection.daily_latency_tax_gpu_hours)

\* main ran over the whole directory listing and analysed (no --list, no
\* rejected --fiber-fraction)
C30_AllMode ==
    /\ Done("main")
    /\ args.argv.all
    /\ ~args.argv.list
    /\ ret.stderr # <<ERROR_FIBER_FRACTION>>

\* the listed names up to the first file that holds a JSON array, on which
\* the run ends with an uncaught exception
C30_Handled ==
    LET arrays == {i \in DOMAIN args.glob :
                       load_config(args.glob[i], args.config_dir).kind
                       = "array"}
    IN IF arrays = {}
       THEN args.glob
       ELSE SubSeq(args.glob, 1,
                   (CHOOSE i \in arrays : \A j \in arrays : i <= j) - 1)

C30_Loads(config_name) == load_config(config_name, args.config_dir).err = "none"

C30_Analysed == SelectSeq(C30_Handled, C30_Loads)

\* C30: with --all the configurations are handled in list order; a
\* configuration that fails to load (invalid JSON) is reported on stderr
\* and the remaining ones are still analysed; the collected results hold
\* exactly one entry per analysed configuration, in processing order.
C30_AllInOrder ==
    C30_AllMode
    => /\ Len(ret.all_results) + Len(ret.tables) = Len(C30_Analysed)
       /\ args.argv.sensitivity => ret.all_results = <<>>
       /\ ~args.argv.sensitivity => ret.tables = <<>>
       /\ \A i \in DOMAIN ret.all_results :
              ret.all_results[i]
              = analyze_cluster(
                    load_config(C30_Analysed[i], args.config_dir).config,
                    args.argv.include_system_overhead,
                    args.argv.fiber_fraction, args.argv.syncs_per_sec,
                    args.argv.gpu_cost)
       /\ Len(SelectSeq(ret.stderr, LAMBDA line : line = ERROR_INVALID_JSON))
          = Len(C30_Handled) - Len(C30_Analysed)
       /\ C30_Handled = args.glob => (~ret.crashed /\ ret.exit = 0)

C30_Witness ==
    /\ C30_AllMode
    /\ ~args.argv.sensitivity
    /\ Len(args.glob) = 2
    /\ ~C30_Loads(args.glob[1])
    /\ Len(ret.all_results) = 1
    /\ ret.stderr = <<ERROR_INVALID_JSON>>

====
